---------------------------- MODULE Spec2Model ----------------------------
(***************************************************************************)
(* Model of the protocol client of ai_mcp_crawler_complete.py:            *)
(* MCPProtocolClient.connect_to_mcp and the three methods it drives       *)
(* (_start_mcp_server, _communicate_with_server, _cleanup_process),       *)
(* running against a child process that is free to write, close its       *)
(* streams and exit whenever it likes.                                    *)
(*                                                                         *)
(* The client is one sequential coroutine; `pc` is its position.  One     *)
(* action is one interaction with the child (a write, a readline, a       *)
(* select, a poll/signal) together with all the local computation that    *)
(* follows it up to the next interaction.                                 *)
(***************************************************************************)
EXTENDS Integers, Sequences, FiniteSets, TLC

(***************************************************************************)
(* Bounds of the model.                                                    *)
(***************************************************************************)
\* lines the child's stdout pipe can hold unread
MaxBuf == 1
\* chunks of text the child's stderr pipe can hold unread
MaxErr == 1
\* calls of _cleanup_process on one process
MaxCalls == 2

(***************************************************************************)
(* JSON values found under result.tools / result.resources /              *)
(* result.prompts.  A value is absent (dict.get gives None), a list of    *)
(* elements, or a number.  An element is a JSON object carrying a name,   *)
(* or something that is not an object (a bare string).                    *)
(***************************************************************************)
Obj(n) == [isdict |-> TRUE, name |-> n]
Str(n) == [isdict |-> FALSE, name |-> n]

JAbsent == [t |-> "absent", items |-> <<>>]
JList(s) == [t |-> "list", items |-> s]
JNum == [t |-> "num", items |-> <<>>]

\* Python truthiness of x.get('tools') etc.: None and [] are false, a
\* non-empty list and a non-zero number are true.
Truthy(v) == \/ v.t = "num"
             \/ v.t = "list" /\ Len(v.items) > 0

\* len(v): defined for lists only; len(5) raises TypeError.
HasLen(v) == v.t = "list"
PyLen(v) == Len(v.items)

Min(a, b) == IF a < b THEN a ELSE b

\* v[:3] of a list
FirstThree(s) == SubSeq(s, 1, Min(3, Len(s)))

AllDicts(s) == \A i \in 1..Len(s) : s[i].isdict

(***************************************************************************)
(* Messages of the Python exceptions the session can meet (str(e)).        *)
(***************************************************************************)
BrokenPipeMsg == "[Errno 32] Broken pipe"
NoGetMsg == "object has no attribute 'get'"
NoKeysMsg == "object has no attribute 'keys'"
NoLenMsg == "object of type 'int' has no len()"
NoFileMsg == "[Errno 2] No such file or directory"
NotPermittedMsg == "[Errno 1] Operation not permitted"
\* UnicodeDecodeError; the position in the message is the one of the byte in
\* the chunk read, 0 when the chunk starts with it
DecodeMsg == "'utf-8' codec can't decode byte 0xff in position 0: invalid start byte"

(***************************************************************************)
(* Lines on the child's stdout.                                            *)
(*   form  "undecodable": bytes that are not UTF-8 (the pipes are opened   *)
(*                    with text=True, line 133)                            *)
(*         "garbage": text that json.loads rejects                         *)
(*         "nonobj" : JSON that is not an object ([] , null, 5)            *)
(*         "obj"    : a JSON object                                        *)
(*   long  the text is longer than 200 characters                          *)
(*   id    the id member (0: no id member, as in a notification)           *)
(*   res   the result member: "absent", "nondict" (null, a number) or      *)
(*         "dict"; the remaining fields are the members of that dict       *)
(***************************************************************************)
BaseLine == [form |-> "obj", long |-> FALSE, id |-> 0, res |-> "dict",
             pv |-> "", sname |-> "", caps |-> "absent",
             tools |-> JAbsent, resources |-> JAbsent, prompts |-> JAbsent]

Garbage == [BaseLine EXCEPT !.form = "garbage", !.res = "absent"]
GarbageLong == [Garbage EXCEPT !.long = TRUE]
NonObj == [BaseLine EXCEPT !.form = "nonobj", !.res = "absent"]
Undecodable == [BaseLine EXCEPT !.form = "undecodable", !.res = "absent"]

InitOk == [BaseLine EXCEPT !.id = 1, !.pv = "2024-11-05",
                           !.sname = "auth-api-server", !.caps = "some"]
InitBadCaps == [BaseLine EXCEPT !.id = 1, !.caps = "bad"]
ErrResp(i) == [BaseLine EXCEPT !.id = i, !.res = "absent"]

ThreeTools == <<Obj("read"), Obj("write"), Obj("read")>>
ToolsResp(v) == [BaseLine EXCEPT !.id = 2, !.tools = v]
ResourcesResp(v) == [BaseLine EXCEPT !.id = 3, !.resources = v]
PromptsResp(v) == [BaseLine EXCEPT !.id = 4, !.prompts = v]

\* what the child may write on stdout
SrvLines == { Undecodable, Garbage, GarbageLong, NonObj,
              InitOk, InitBadCaps, ErrResp(1),
              ToolsResp(JList(ThreeTools)), ToolsResp(JList(<<Str("x")>>)),
              ResourcesResp(JList(<<>>)), ResourcesResp(JList(<<Obj("doc")>>)),
              ResourcesResp(JNum),
              PromptsResp(JList(<<>>)), PromptsResp(JList(<<Obj("ask"), Obj("ask")>>)),
              PromptsResp(JNum) }

\* a chunk of stderr that ends with a byte that is not UTF-8
BadErrText == "Error: ANTHROPIC_API_KEY is not set <ff>"

\* what the child may write on stderr
SrvErrText == { "Error: ANTHROPIC_API_KEY is not set", BadErrText }

\* the text decodes: process.stderr.read() returns it, and raises
\* UnicodeDecodeError otherwise
Decodes(text) == \A i \in DOMAIN text : text[i] # BadErrText

\* response_line[:200]
Prefix200(l) == IF l.long THEN [l EXCEPT !.form = "garbage-prefix", !.long = FALSE] ELSE l


(***************************************************************************)
(* The fixed request ids of _communicate_with_server.                      *)
(***************************************************************************)
InitId == 1
ToolsId == 2
\* a request that takes the id of the one before it
ReusedId == ToolsId
ResourcesId == 3
PromptsId == 4

VARIABLES
    pc,        \* position of the connect_to_mcp coroutine
    child,     \* the child process: state and which pipe ends it holds open
    outBuf,    \* lines written on stdout and not yet read
    errBuf,    \* text written on stderr and not yet read
    loc,       \* local variables of _communicate_with_server
    exc,       \* str(e) of the exception travelling to the handler of line 330
    result,    \* the dict connect_to_mcp returns (meaningful at pc = "done")
    handle,    \* _start_mcp_server returned the process
    earlyExit, \* the poll of line 140 found the child exited
    written,   \* the write calls on stdin, in order: method, id, whether the write succeeded
    reads,     \* the readline calls on stdout, in order: the request they follow, what they got
    negotiated, \* the initialize response was accepted (line 224 was reached)
    answers,   \* the id of each line whose content the session kept, with the id of the request it followed
    cleanups,  \* number of calls of _cleanup_process
    signals,   \* signals sent to the child, in order
    auth,      \* what extract_auth_from_mcp_result returned for result
    npkgs,     \* crawl_mcps: len(packages), the packages being numbered 1..npkgs in discovery order
    pkg,       \* crawl_mcps: the number of the package the loop of line 1248 is at
    attempts,  \* crawl_mcps: the packages _process_single_mcp was called for, in order
    results,   \* crawl_mcps: the list results of line 1246, as (package, connection_working)
    stats,     \* crawl_mcps: self.stats
    orphans,   \* the children of earlier attempts that were left alive and without a signal
    seen       \* the packages discover_mcps returned to earlier calls of crawl_mcps

vars == <<pc, child, outBuf, errBuf, loc, exc, result, handle, earlyExit,
          written, reads, negotiated, answers, cleanups, signals, auth,
          npkgs, pkg, attempts, results, stats, orphans, seen>>

\* what the client does not touch while it talks to the child
ghostCleanup == <<handle, earlyExit, cleanups, signals>>
ghostSession == <<written, reads, negotiated, answers>>
\* the variables of crawl_mcps
crawlVars == <<npkgs, pkg, attempts, results, stats, orphans, seen>>
\* what connect_to_mcp and _cleanup_process do not touch at all
outer == <<auth, crawlVars>>

\* lines 1222-1227
Stats0 == [discovered |-> 0, connected |-> 0, stored |-> 0, failed |-> 0]

\* no crawl is under way
NoCrawl ==
    /\ npkgs = 0 /\ pkg = 0
    /\ attempts = <<>> /\ results = <<>>
    /\ stats = Stats0
    /\ orphans = 0 /\ seen = 0

NoChild == [state |-> "none", stdin |-> FALSE, stdout |-> FALSE, stderr |-> FALSE]
Running == [state |-> "alive", stdin |-> TRUE, stdout |-> TRUE, stderr |-> TRUE]
Exited == [state |-> "exited", stdin |-> FALSE, stdout |-> FALSE, stderr |-> FALSE]

NoInfo == [present |-> FALSE, name |-> ""]

\* locals before any assignment (stderr_data = "", and the three lists of
\* lines 238-240)
Locals0 == [stderr_data |-> <<>>, protocol_version |-> "None",
            server_info |-> NoInfo, capabilities |-> "empty",
            tools |-> JList(<<>>), resources |-> JList(<<>>),
            prompts |-> JList(<<>>)]

Pending == [pending |-> TRUE]

\* dict.get(k, default)
Get(d, k, default) == IF k \in DOMAIN d THEN d[k] ELSE default

(***************************************************************************)
(* The dicts _communicate_with_server and connect_to_mcp return.           *)
(***************************************************************************)
\* an early exit reported with the text of line 198
StartNoResponse == [success |-> FALSE, error |-> "No response from server"]

\* line 98
StartFailed == [success |-> FALSE, error |-> "Failed to start MCP server"]

NoResponse(sd) == [success |-> FALSE, error |-> "No response from server",
                   stderr |-> sd]

InvalidJson(sd, line) == [success |-> FALSE, error |-> "Invalid JSON response",
                          stderr |-> sd, raw_response |-> Prefix200(line)]

\* a failure reported as a success
FailureAsSuccess(msg, sd) == [success |-> TRUE, error |-> msg, stderr |-> sd]

\* lines 340-344
Failure(msg, sd) == [success |-> FALSE, error |-> msg, stderr |-> sd]

\* line 110
ConnectFailed(msg) == [success |-> FALSE, error |-> msg]

Success(l) ==
    [success |-> TRUE,
     tools |-> l.tools, resources |-> l.resources, prompts |-> l.prompts,
     protocol_version |-> l.protocol_version,
     server_info |-> l.server_info,
     capabilities |-> l.capabilities,
     total_functionality |-> PyLen(l.tools) + PyLen(l.resources) + PyLen(l.prompts),
     functionality_breakdown |->
        [tools_count |-> PyLen(l.tools),
         resources_count |-> PyLen(l.resources),
         prompts_count |-> PyLen(l.prompts),
         has_capabilities |-> l.capabilities = "some",
         has_server_info |-> l.server_info.present],
     stderr |-> l.stderr_data,
     additional_data |-> "empty"]

Init ==
    /\ pc = "start"
    /\ child = NoChild
    /\ outBuf = <<>>
    /\ errBuf = <<>>
    /\ loc = Locals0
    /\ exc = ""
    /\ result = Pending
    /\ handle = FALSE
    /\ earlyExit = FALSE
    /\ written = <<>>
    /\ reads = <<>>
    /\ negotiated = FALSE
    /\ answers = <<>>
    /\ cleanups = 0
    /\ signals = <<>>
    /\ auth = Pending
    /\ NoCrawl

(***************************************************************************)
(* The child process: the environment of the client.  What the child does  *)
(* to a pipe is modelled while the client can still observe it: a write on *)
(* stdin, a readline on stdout or a read of stderr can still follow.  Once *)
(* _communicate_with_server has returned, the client never touches the     *)
(* pipes again and only asks whether the child is alive.                   *)
(***************************************************************************)
\* poll() never reports an exit
AlwaysAlive == TRUE

\* process.poll() is None
Alive == child.state = "alive"

StdinInUse == pc \in {"grace", "w_init", "peek", "peek_read", "r_init", "w_tools",
                      "r_tools", "w_res", "r_res", "w_prompts"}
StdoutInUse == StdinInUse \/ pc = "r_prompts"
StderrInUse == StdoutInUse \/ pc = "handler"

SrvWriteOut ==
    /\ Alive /\ StdoutInUse /\ child.stdout
    /\ Len(outBuf) < MaxBuf
    /\ \E l \in SrvLines : outBuf' = Append(outBuf, l)
    /\ UNCHANGED <<pc, child, errBuf, loc, exc, result>>
    /\ UNCHANGED <<ghostSession, ghostCleanup>>
    /\ UNCHANGED outer

SrvWriteErr ==
    /\ Alive /\ StderrInUse /\ child.stderr
    /\ Len(errBuf) < MaxErr
    /\ \E m \in SrvErrText : errBuf' = Append(errBuf, m)
    /\ UNCHANGED <<pc, child, outBuf, loc, exc, result>>
    /\ UNCHANGED <<ghostSession, ghostCleanup>>
    /\ UNCHANGED outer

SrvCloseStdin ==
    /\ Alive /\ StdinInUse /\ child.stdin
    /\ child' = [child EXCEPT !.stdin = FALSE]
    /\ UNCHANGED <<pc, outBuf, errBuf, loc, exc, result>>
    /\ UNCHANGED <<ghostSession, ghostCleanup>>
    /\ UNCHANGED outer

SrvCloseStdout ==
    /\ Alive /\ StdoutInUse /\ child.stdout
    /\ child' = [child EXCEPT !.stdout = FALSE]
    /\ UNCHANGED <<pc, outBuf, errBuf, loc, exc, result>>
    /\ UNCHANGED <<ghostSession, ghostCleanup>>
    /\ UNCHANGED outer

SrvCloseStderr ==
    /\ Alive /\ StderrInUse /\ child.stderr
    /\ child' = [child EXCEPT !.stderr = FALSE]
    /\ UNCHANGED <<pc, outBuf, errBuf, loc, exc, result>>
    /\ UNCHANGED <<ghostSession, ghostCleanup>>
    /\ UNCHANGED outer

\* the child exits, which closes its ends of the three pipes
SrvExit ==
    /\ Alive /\ pc \notin {"done", "raised", "cancelled"}
    /\ child' = Exited
    /\ UNCHANGED <<pc, outBuf, errBuf, loc, exc, result>>
    /\ UNCHANGED <<ghostSession, ghostCleanup>>
    /\ UNCHANGED outer

(***************************************************************************)
(* Where an exception goes.  Each of the four methods wraps its body in    *)
(* try / except Exception.                                                 *)
(***************************************************************************)
\* line 146, line 330, line 354, line 108
StartCatches == TRUE
CommunicateCatches == TRUE
CleanupCatches == TRUE
ConnectCatches == TRUE

\* an exception reaches the try block of connect_to_mcp (lines 94-110)
Propagate(msg) ==
    /\ exc' = msg
    /\ IF ConnectCatches
       THEN result' = ConnectFailed(msg) /\ pc' = "done"
       ELSE pc' = "raised" /\ UNCHANGED result

\* an exception is raised inside _communicate_with_server
Raise(msg) ==
    IF CommunicateCatches
    THEN exc' = msg /\ pc' = "handler" /\ UNCHANGED result
    ELSE Propagate(msg)

\* connect_to_mcp returns without cleanup on a failed session
SkipCleanupOnFailure(res) == IF res.success THEN "cleanup" ELSE "done"

\* lines 101-106: whatever _communicate_with_server returned, the next
\* statement is the call of _cleanup_process
AfterCommunicate(res) == "cleanup"

\* _communicate_with_server returns res
Returns(res) ==
    /\ result' = res
    /\ pc' = AfterCommunicate(res)
    /\ exc' = ""

Goto(p) == pc' = p /\ UNCHANGED <<exc, result>>

(***************************************************************************)
(* connect_to_mcp and _start_mcp_server.                                   *)
(***************************************************************************)

\* the process is handed over whatever poll says
AlwaysReturnsProcess(c) == TRUE

\* line 140: process.poll() is None
StartReturnsProcess(c) == c.state = "alive"

\* line 128: subprocess.Popen starts the child, or raises (no such
\* executable) and _start_mcp_server returns None (lines 146-148, 97-98)
Popen ==
    /\ pc = "start"
    /\ \E found \in BOOLEAN :
          IF found
          THEN child' = Running /\ Goto("grace")
          ELSE /\ UNCHANGED child
               /\ IF StartCatches
                  THEN result' = StartFailed /\ pc' = "done" /\ UNCHANGED exc
                  ELSE Propagate(NoFileMsg)
    /\ UNCHANGED <<outBuf, errBuf, loc>>
    /\ UNCHANGED <<ghostSession, ghostCleanup>>
    /\ UNCHANGED outer

\* lines 138-144 and 97-98: the end of asyncio.sleep(3), the poll, and the
\* return of connect_to_mcp when there is no process
PollAfterGrace ==
    /\ pc = "grace"
    /\ earlyExit' = (child.state = "exited")
    /\ IF StartReturnsProcess(child)
       THEN handle' = TRUE /\ Goto("w_init")
       ELSE /\ result' = StartFailed /\ pc' = "done"
            /\ UNCHANGED <<handle, exc>>
    /\ UNCHANGED <<child, outBuf, errBuf, loc, cleanups, signals>>
    /\ UNCHANGED ghostSession
    /\ UNCHANGED outer

(***************************************************************************)
(* _communicate_with_server.                                               *)
(***************************************************************************)

\* process.stdin.write + flush: BrokenPipeError when the child no longer
\* reads its stdin
Request(m, i) == [method |-> m, id |-> i, ok |-> child.stdin]

\* lines 154-176
WriteInit ==
    /\ pc = "w_init"
    /\ loc' = Locals0
    /\ written' = Append(written, Request("initialize", InitId))
    /\ IF child.stdin THEN Goto("peek") ELSE Raise(BrokenPipeMsg)
    /\ UNCHANGED <<child, outBuf, errBuf, reads, negotiated, answers>>
    /\ UNCHANGED ghostCleanup
    /\ UNCHANGED outer

\* line 186: select on stderr with a 0.1 s timeout; readable means that
\* text is waiting or that the stream is at end of file
PeekStderr ==
    /\ pc = "peek"
    /\ Goto(IF Len(errBuf) > 0 \/ ~child.stderr THEN "peek_read" ELSE "r_init")
    /\ UNCHANGED <<child, outBuf, errBuf, loc>>
    /\ UNCHANGED <<ghostSession, ghostCleanup>>
    /\ UNCHANGED outer

\* lines 188-191: process.stderr.read() returns at end of file, with all the
\* text; when the text does not decode it raises, the bare except of line
\* 191 takes the exception and stderr_data keeps the "" of line 154
PeekRead ==
    /\ pc = "peek_read"
    /\ ~child.stderr
    /\ loc' = [loc EXCEPT !.stderr_data = IF Decodes(errBuf) THEN errBuf ELSE <<>>]
    /\ errBuf' = <<>>
    /\ Goto("r_init")
    /\ UNCHANGED <<child, outBuf>>
    /\ UNCHANGED <<ghostSession, ghostCleanup>>
    /\ UNCHANGED outer

\* process.stdout.readline() returns when a line is waiting, or at end of file
CanRead == Len(outBuf) > 0 \/ ~child.stdout
GotLine == Len(outBuf) > 0
Line == Head(outBuf)

\* the lines waiting hold bytes that are not UTF-8
BadBytesWaiting == \E i \in DOMAIN outBuf : outBuf[i].form = "undecodable"

\* readline() returns the line that is waiting, or "" at end of file.  A good
\* line ahead of bad bytes is returned only when the chunk of an earlier
\* readline had brought it: the first readline decodes all that is waiting.
Readline(req) ==
    /\ CanRead
    /\ GotLine => Line.form # "undecodable"
    /\ BadBytesWaiting => reads # <<>>
    /\ reads' = Append(reads, [req |-> req, got |-> IF GotLine THEN Line.form ELSE "eof"])
    /\ outBuf' = IF GotLine THEN Tail(outBuf) ELSE outBuf

\* readline() raises UnicodeDecodeError: the chunk it takes from the pipe,
\* which is all that is waiting there, holds bytes that are not UTF-8.  The
\* line at the head is lost with the chunk even when it is a good one, unless
\* an earlier chunk had brought it (then readline returns it, as above).
ReadlineRaises(req) ==
    /\ BadBytesWaiting
    /\ reads' = Append(reads, [req |-> req, got |-> "undecodable"])
    /\ outBuf' = <<>>

Kept(req) == Append(answers, [req |-> req, id |-> Line.id])

\* lines 215-218 on the initialize response
InitLocals(l) ==
    [loc EXCEPT !.protocol_version = IF l.res = "dict" /\ l.pv # "" THEN l.pv ELSE "None",
                !.server_info = IF l.res = "dict" /\ l.sname # ""
                                THEN [present |-> TRUE, name |-> l.sname]
                                ELSE NoInfo,
                !.capabilities = IF l.res = "dict" /\ l.caps = "some" THEN "some" ELSE "empty"]

\* lines 194-222; a readline that raises goes to the handler of line 330
ReadInit ==
    /\ pc = "r_init"
    /\ \/ /\ ReadlineRaises(InitId)
          /\ Raise(DecodeMsg)
          /\ UNCHANGED <<loc, answers, negotiated>>
       \/ /\ Readline(InitId)
          /\ IF ~GotLine
             THEN /\ Returns(NoResponse(loc.stderr_data))
                  /\ UNCHANGED <<loc, answers, negotiated>>
             ELSE CASE Line.form = "garbage" ->
                         /\ Returns(InvalidJson(loc.stderr_data, Line))
                         /\ UNCHANGED <<loc, answers, negotiated>>
                    [] Line.form = "nonobj" \/ Line.res = "nondict" ->
                         /\ Raise(NoGetMsg)
                         /\ UNCHANGED <<loc, answers, negotiated>>
                    [] Line.form = "obj" /\ Line.res = "dict" /\ Line.caps = "bad" ->
                         /\ Raise(NoKeysMsg)
                         /\ loc' = InitLocals(Line)
                         /\ answers' = Kept(InitId)
                         /\ UNCHANGED negotiated
                    [] OTHER ->
                         /\ loc' = InitLocals(Line)
                         /\ answers' = Kept(InitId)
                         /\ negotiated' = TRUE
                         /\ Goto("w_tools")
    /\ UNCHANGED <<child, errBuf, written>>
    /\ UNCHANGED ghostCleanup
    /\ UNCHANGED outer

\* tools/list is written and resources/list follows without the read
WriteToolsPipelined ==
    /\ pc = "w_tools"
    /\ written' = Append(written, Request("tools/list", ToolsId))
    /\ IF child.stdin THEN Goto("w_res") ELSE Raise(BrokenPipeMsg)
    /\ UNCHANGED <<child, outBuf, errBuf, loc, reads, negotiated, answers>>
    /\ UNCHANGED ghostCleanup
    /\ UNCHANGED outer

\* lines 225-234
WriteTools ==
    /\ pc = "w_tools"
    /\ written' = Append(written, Request("tools/list", ToolsId))
    /\ IF child.stdin THEN Goto("r_tools") ELSE Raise(BrokenPipeMsg)
    /\ UNCHANGED <<child, outBuf, errBuf, loc, reads, negotiated, answers>>
    /\ UNCHANGED ghostCleanup
    /\ UNCHANGED outer

\* the resources are left out of the returned dict
FinishWithoutResources(l) ==
    IF HasLen(l.tools) /\ HasLen(l.resources) /\ HasLen(l.prompts)
    THEN Returns(Success([l EXCEPT !.resources = JList(<<>>)]))
    ELSE Raise(NoLenMsg)

\* lines 306-328: the lengths are taken and the dict of a successful
\* connection is returned; len() of a number raises TypeError
Finish(l) ==
    IF HasLen(l.tools) /\ HasLen(l.resources) /\ HasLen(l.prompts)
    THEN Returns(Success(l))
    ELSE Raise(NoLenMsg)

\* a tools/list without a usable line ends the session
ToolsMissedStops == Finish(loc)

\* lines 242 and 260-261: no line, or a line that is not JSON: the session
\* goes on with line 264
ToolsMissed == Goto("w_res")

\* lines 237-261; a readline that raises goes to the handler of line 330
ReadTools ==
    /\ pc = "r_tools"
    /\ \/ /\ ReadlineRaises(ToolsId)
          /\ Raise(DecodeMsg)
          /\ UNCHANGED <<loc, answers>>
       \/ /\ Readline(ToolsId)
          /\ IF ~GotLine \/ Line.form = "garbage"
             THEN /\ ToolsMissed
                  /\ UNCHANGED <<loc, answers>>
             ELSE IF Line.form = "nonobj" \/ Line.res = "nondict"
             THEN /\ Raise(NoGetMsg)
                  /\ UNCHANGED <<loc, answers>>
             ELSE IF Line.res = "dict" /\ Truthy(Line.tools)
             THEN /\ loc' = [loc EXCEPT !.tools = Line.tools]
                  /\ answers' = Kept(ToolsId)
                  /\ IF ~HasLen(Line.tools) THEN Raise(NoLenMsg)
                     ELSE IF ~AllDicts(Line.tools.items) THEN Raise(NoGetMsg)
                     ELSE Goto("w_res")
             ELSE /\ Goto("w_res")
                  /\ UNCHANGED <<loc, answers>>
    /\ UNCHANGED <<child, errBuf, written, negotiated>>
    /\ UNCHANGED ghostCleanup
    /\ UNCHANGED outer

\* lines 268-270; an exception is caught at line 303
WriteResources ==
    /\ pc = "w_res"
    /\ written' = Append(written, Request("resources/list", ResourcesId))
    /\ IF child.stdin THEN Goto("r_res") ELSE Finish(loc)
    /\ UNCHANGED <<child, outBuf, errBuf, loc, reads, negotiated, answers>>
    /\ UNCHANGED ghostCleanup
    /\ UNCHANGED outer

\* lines 272-283; an exception, the one of a readline that raises
\* included, is caught at line 303 and prompts/list is not written
ReadResources ==
    /\ pc = "r_res"
    /\ \/ /\ ReadlineRaises(ResourcesId)
          /\ Finish(loc)
          /\ UNCHANGED <<loc, answers>>
       \/ /\ Readline(ResourcesId)
          /\ IF ~GotLine \/ Line.form = "garbage"
             THEN /\ Goto("w_prompts")
                  /\ UNCHANGED <<loc, answers>>
             ELSE IF Line.form = "nonobj" \/ Line.res = "nondict"
             THEN /\ Finish(loc)
                  /\ UNCHANGED <<loc, answers>>
             ELSE IF Line.res = "dict" /\ Truthy(Line.resources)
             THEN /\ loc' = [loc EXCEPT !.resources = Line.resources]
                  /\ answers' = Kept(ResourcesId)
                  /\ IF HasLen(Line.resources) /\ AllDicts(FirstThree(Line.resources.items))
                     THEN Goto("w_prompts")
                     ELSE Finish([loc EXCEPT !.resources = Line.resources])
             ELSE /\ Goto("w_prompts")
                  /\ UNCHANGED <<loc, answers>>
    /\ UNCHANGED <<child, errBuf, written, negotiated>>
    /\ UNCHANGED ghostCleanup
    /\ UNCHANGED outer

\* lines 286-288; an exception is caught at line 303
WritePrompts ==
    /\ pc = "w_prompts"
    /\ written' = Append(written, Request("prompts/list", PromptsId))
    /\ IF child.stdin THEN Goto("r_prompts") ELSE Finish(loc)
    /\ UNCHANGED <<child, outBuf, errBuf, loc, reads, negotiated, answers>>
    /\ UNCHANGED ghostCleanup
    /\ UNCHANGED outer

\* lines 290-328; a readline that raises is caught at line 303
ReadPrompts ==
    /\ pc = "r_prompts"
    /\ \/ /\ ReadlineRaises(PromptsId)
          /\ Finish(loc)
          /\ UNCHANGED <<loc, answers>>
       \/ /\ Readline(PromptsId)
          /\ IF GotLine /\ Line.form = "obj" /\ Line.res = "dict" /\ Truthy(Line.prompts)
             THEN /\ loc' = [loc EXCEPT !.prompts = Line.prompts]
                  /\ answers' = Kept(PromptsId)
                  /\ Finish([loc EXCEPT !.prompts = Line.prompts])
             ELSE /\ Finish(loc)
                  /\ UNCHANGED <<loc, answers>>
    /\ UNCHANGED <<child, errBuf, written, negotiated>>
    /\ UNCHANGED ghostCleanup
    /\ UNCHANGED outer

\* lines 330-344: the handler of _communicate_with_server;
\* process.stderr.read() returns at end of file with the text not read
\* before; when that text does not decode it raises, the bare except of
\* line 337 takes the exception and stderr_data keeps the "" of line 333
Handler ==
    /\ pc = "handler"
    /\ ~child.stderr
    /\ loc' = [loc EXCEPT !.stderr_data = IF Decodes(errBuf) THEN errBuf ELSE <<>>]
    /\ errBuf' = <<>>
    /\ Returns(Failure(exc, IF Decodes(errBuf) THEN errBuf ELSE <<>>))
    /\ UNCHANGED <<child, outBuf>>
    /\ UNCHANGED <<ghostSession, ghostCleanup>>
    /\ UNCHANGED outer

(***************************************************************************)
(* _cleanup_process.                                                       *)
(***************************************************************************)

\* terminate() or kill() raises and _cleanup_process lets the exception out
SignalPropagates == Propagate(NotPermittedMsg)

\* process.terminate() / process.kill() raises
SignalRaises ==
    IF CleanupCatches
    THEN pc' = "done" /\ UNCHANGED <<exc, result>>
    ELSE Propagate(NotPermittedMsg)

\* lines 349-351: poll, terminate, and  the start of asyncio.sleep(1)
CleanupTerminate ==
    /\ pc = "cleanup"
    /\ cleanups' = cleanups + 1
    /\ IF Alive
       THEN \E raises \in BOOLEAN :
               IF raises
               THEN SignalRaises /\ UNCHANGED signals
               ELSE Goto("cleanup_wait") /\ signals' = Append(signals, "term")
       ELSE Goto("done") /\ UNCHANGED signals
    /\ UNCHANGED <<child, outBuf, errBuf, loc, handle, earlyExit>>
    /\ UNCHANGED ghostSession
    /\ UNCHANGED outer

\* lines 351-353 and 106: the end of asyncio.sleep(1), poll, kill; then
\* connect_to_mcp returns the result
CleanupKill ==
    /\ pc = "cleanup_wait"
    /\ IF Alive
       THEN \E raises \in BOOLEAN :
               IF raises
               THEN SignalRaises /\ UNCHANGED signals
               ELSE Goto("done") /\ signals' = Append(signals, "kill")
       ELSE Goto("done") /\ UNCHANGED signals
    /\ UNCHANGED <<child, outBuf, errBuf, loc, handle, earlyExit, cleanups>>
    /\ UNCHANGED ghostSession
    /\ UNCHANGED outer

(***************************************************************************)
(* The caller of connect_to_mcp.                                           *)
(***************************************************************************)

\* The task that runs connect_to_mcp is cancelled while the coroutine is
\* suspended, which it is in asyncio.sleep(3) (line 138) and in
\* asyncio.sleep(1) (line 351) only.  asyncio.CancelledError is raised
\* there; it is a BaseException, so that none of the except Exception
\* clauses of lines 146, 354 and 108 catches it, and it leaves connect_to_mcp.
Cancel ==
    /\ pc \in {"grace", "cleanup_wait"}
    /\ pc' = "cancelled"
    /\ UNCHANGED <<child, outBuf, errBuf, loc, exc, result>>
    /\ UNCHANGED <<ghostSession, ghostCleanup>>
    /\ UNCHANGED outer

Caller == Cancel

Client ==
    \/ Popen \/ PollAfterGrace
    \/ WriteInit \/ PeekStderr \/ PeekRead \/ ReadInit
    \/ WriteTools \/ ReadTools
    \/ WriteResources \/ ReadResources
    \/ WritePrompts \/ ReadPrompts
    \/ Handler
    \/ CleanupTerminate \/ CleanupKill

Server ==
    \/ SrvWriteOut \/ SrvWriteErr
    \/ SrvCloseStdin \/ SrvCloseStdout \/ SrvCloseStderr
    \/ SrvExit

Next == Client \/ Server \/ Caller

Spec == Init /\ [][Next]_vars

\* the coroutine runs whenever the call it waits in can return; the child
\* owes nothing
FairSpec == Spec /\ WF_vars(Client)

(***************************************************************************)
(* MCPAuthDetector.extract_auth_from_mcp_result.                           *)
(*                                                                         *)
(* A text is a string; what the regular expressions of the method see of   *)
(* it is its words, the pieces between single blanks.  The text on stderr  *)
(* is a sequence of chunks, each chunk one line (the string leaves out the *)
(* newline that ends it).                                                  *)
(***************************************************************************)

\* str.split(' ') of the texts of the model
Words(s) ==
    CASE s = "" -> <<>>
      [] s = "Failed to start MCP server" -> <<"Failed", "to", "start", "MCP", "server">>
      [] s = "No response from server" -> <<"No", "response", "from", "server">>
      [] s = "Invalid JSON response" -> <<"Invalid", "JSON", "response">>
      [] s = "[Errno 32] Broken pipe" -> <<"[Errno", "32]", "Broken", "pipe">>
      [] s = "object has no attribute 'get'" -> <<"object", "has", "no", "attribute", "'get'">>
      [] s = "object has no attribute 'keys'" -> <<"object", "has", "no", "attribute", "'keys'">>
      [] s = "object of type 'int' has no len()" -> <<"object", "of", "type", "'int'", "has", "no", "len()">>
      [] s = "[Errno 2] No such file or directory" -> <<"[Errno", "2]", "No", "such", "file", "or", "directory">>
      [] s = "[Errno 1] Operation not permitted" -> <<"[Errno", "1]", "Operation", "not", "permitted">>
      [] s = "Missing required environment variable: STRIPE_SECRET_KEY" -> <<"Missing", "required", "environment", "variable:", "STRIPE_SECRET_KEY">>
      [] s = "Error: ANTHROPIC_API_KEY is not set" -> <<"Error:", "ANTHROPIC_API_KEY", "is", "not", "set">>
      [] s = "please set api_key" -> <<"please", "set", "api_key">>
      [] s = "DATABASE_URL not found" -> <<"DATABASE_URL", "not", "found">>
      [] s = "requires DATABASE_HOST" -> <<"requires", "DATABASE_HOST">>
      [] s = "set the GITHUB_TOKEN environment variable" -> <<"set", "the", "GITHUB_TOKEN", "environment", "variable">>
      [] s = "using OPENAI_API_KEY DATABASE_URL CLIENT_ID" -> <<"using", "OPENAI_API_KEY", "DATABASE_URL", "CLIENT_ID">>
      [] s = "AUTH_ONE API_TWO KEY_THREE TOKEN_FOUR SECRET_FIVE AUTH_SIX" -> <<"AUTH_ONE", "API_TWO", "KEY_THREE", "TOKEN_FOUR", "SECRET_FIVE", "AUTH_SIX">>
      [] s = "'utf-8' codec can't decode byte 0xff in position 0: invalid start byte" -> <<"'utf-8'", "codec", "can't", "decode", "byte", "0xff", "in", "position", "0:", "invalid", "start", "byte">>

\* the newline between two lines of stderr
NL == "\n"

RECURSIVE Lines(_)
\* the words of the chunks read from stderr
Lines(chunks) ==
    IF chunks = <<>> THEN <<>>
    ELSE IF Len(chunks) = 1 THEN Words(chunks[1])
    ELSE Words(chunks[1]) \o <<NL>> \o Lines(Tail(chunks))

\* What the regular expressions make of one word:
\*   up     w.upper()
\*   head   what ([A-Z][A-Z0-9_]{3,}) captures at the start of w.upper()
\*          when the group ends the pattern
\*   whole  what the group captures of w.upper() between two blanks
\*   tail   what the group captures at the end of w.upper() when the group
\*          starts the pattern and a blank follows
\*   caps   re.findall(r'([A-Z][A-Z0-9_]{4,})', w), on w as written
\* "" stands for no capture.
W(up, head, whole, tail, caps) ==
    [up |-> up, head |-> head, whole |-> whole, tail |-> tail, caps |-> caps]

WordInfo(w) ==
    CASE w = NL -> W(NL, "", "", "", <<>>)
      [] w = "Failed" -> W("FAILED", "FAILED", "FAILED", "FAILED", <<>>)
      [] w = "to" -> W("TO", "", "", "", <<>>)
      [] w = "start" -> W("START", "START", "START", "START", <<>>)
      [] w = "MCP" -> W("MCP", "", "", "", <<>>)
      [] w = "server" -> W("SERVER", "SERVER", "SERVER", "SERVER", <<>>)
      [] w = "No" -> W("NO", "", "", "", <<>>)
      [] w = "response" -> W("RESPONSE", "RESPONSE", "RESPONSE", "RESPONSE", <<>>)
      [] w = "from" -> W("FROM", "FROM", "FROM", "FROM", <<>>)
      [] w = "Invalid" -> W("INVALID", "INVALID", "INVALID", "INVALID", <<>>)
      [] w = "JSON" -> W("JSON", "JSON", "JSON", "JSON", <<>>)
      [] w = "[Errno" -> W("[ERRNO", "", "", "ERRNO", <<>>)
      [] w = "32]" -> W("32]", "", "", "", <<>>)
      [] w = "Broken" -> W("BROKEN", "BROKEN", "BROKEN", "BROKEN", <<>>)
      [] w = "pipe" -> W("PIPE", "PIPE", "PIPE", "PIPE", <<>>)
      [] w = "object" -> W("OBJECT", "OBJECT", "OBJECT", "OBJECT", <<>>)
      [] w = "has" -> W("HAS", "", "", "", <<>>)
      [] w = "no" -> W("NO", "", "", "", <<>>)
      [] w = "attribute" -> W("ATTRIBUTE", "ATTRIBUTE", "ATTRIBUTE", "ATTRIBUTE", <<>>)
      [] w = "'get'" -> W("'GET'", "", "", "", <<>>)
      [] w = "'keys'" -> W("'KEYS'", "", "", "", <<>>)
      [] w = "of" -> W("OF", "", "", "", <<>>)
      [] w = "type" -> W("TYPE", "TYPE", "TYPE", "TYPE", <<>>)
      [] w = "'int'" -> W("'INT'", "", "", "", <<>>)
      [] w = "len()" -> W("LEN()", "", "", "", <<>>)
      [] w = "2]" -> W("2]", "", "", "", <<>>)
      [] w = "such" -> W("SUCH", "SUCH", "SUCH", "SUCH", <<>>)
      [] w = "file" -> W("FILE", "FILE", "FILE", "FILE", <<>>)
      [] w = "or" -> W("OR", "", "", "", <<>>)
      [] w = "directory" -> W("DIRECTORY", "DIRECTORY", "DIRECTORY", "DIRECTORY", <<>>)
      [] w = "1]" -> W("1]", "", "", "", <<>>)
      [] w = "Operation" -> W("OPERATION", "OPERATION", "OPERATION", "OPERATION", <<>>)
      [] w = "not" -> W("NOT", "", "", "", <<>>)
      [] w = "permitted" -> W("PERMITTED", "PERMITTED", "PERMITTED", "PERMITTED", <<>>)
      [] w = "Missing" -> W("MISSING", "MISSING", "MISSING", "MISSING", <<>>)
      [] w = "required" -> W("REQUIRED", "REQUIRED", "REQUIRED", "REQUIRED", <<>>)
      [] w = "environment" -> W("ENVIRONMENT", "ENVIRONMENT", "ENVIRONMENT", "ENVIRONMENT", <<>>)
      [] w = "variable:" -> W("VARIABLE:", "VARIABLE", "", "", <<>>)
      [] w = "STRIPE_SECRET_KEY" -> W("STRIPE_SECRET_KEY", "STRIPE_SECRET_KEY", "STRIPE_SECRET_KEY", "STRIPE_SECRET_KEY", <<"STRIPE_SECRET_KEY">>)
      [] w = "Error:" -> W("ERROR:", "ERROR", "", "", <<>>)
      [] w = "ANTHROPIC_API_KEY" -> W("ANTHROPIC_API_KEY", "ANTHROPIC_API_KEY", "ANTHROPIC_API_KEY", "ANTHROPIC_API_KEY", <<"ANTHROPIC_API_KEY">>)
      [] w = "is" -> W("IS", "", "", "", <<>>)
      [] w = "set" -> W("SET", "", "", "", <<>>)
      [] w = "please" -> W("PLEASE", "PLEASE", "PLEASE", "PLEASE", <<>>)
      [] w = "api_key" -> W("API_KEY", "API_KEY", "API_KEY", "API_KEY", <<>>)
      [] w = "DATABASE_URL" -> W("DATABASE_URL", "DATABASE_URL", "DATABASE_URL", "DATABASE_URL", <<"DATABASE_URL">>)
      [] w = "found" -> W("FOUND", "FOUND", "FOUND", "FOUND", <<>>)
      [] w = "requires" -> W("REQUIRES", "REQUIRES", "REQUIRES", "REQUIRES", <<>>)
      [] w = "DATABASE_HOST" -> W("DATABASE_HOST", "DATABASE_HOST", "DATABASE_HOST", "DATABASE_HOST", <<"DATABASE_HOST">>)
      [] w = "the" -> W("THE", "", "", "", <<>>)
      [] w = "GITHUB_TOKEN" -> W("GITHUB_TOKEN", "GITHUB_TOKEN", "GITHUB_TOKEN", "GITHUB_TOKEN", <<"GITHUB_TOKEN">>)
      [] w = "variable" -> W("VARIABLE", "VARIABLE", "VARIABLE", "VARIABLE", <<>>)
      [] w = "using" -> W("USING", "USING", "USING", "USING", <<>>)
      [] w = "OPENAI_API_KEY" -> W("OPENAI_API_KEY", "OPENAI_API_KEY", "OPENAI_API_KEY", "OPENAI_API_KEY", <<"OPENAI_API_KEY">>)
      [] w = "CLIENT_ID" -> W("CLIENT_ID", "CLIENT_ID", "CLIENT_ID", "CLIENT_ID", <<"CLIENT_ID">>)
      [] w = "AUTH_ONE" -> W("AUTH_ONE", "AUTH_ONE", "AUTH_ONE", "AUTH_ONE", <<"AUTH_ONE">>)
      [] w = "API_TWO" -> W("API_TWO", "API_TWO", "API_TWO", "API_TWO", <<"API_TWO">>)
      [] w = "KEY_THREE" -> W("KEY_THREE", "KEY_THREE", "KEY_THREE", "KEY_THREE", <<"KEY_THREE">>)
      [] w = "TOKEN_FOUR" -> W("TOKEN_FOUR", "TOKEN_FOUR", "TOKEN_FOUR", "TOKEN_FOUR", <<"TOKEN_FOUR">>)
      [] w = "SECRET_FIVE" -> W("SECRET_FIVE", "SECRET_FIVE", "SECRET_FIVE", "SECRET_FIVE", <<"SECRET_FIVE">>)
      [] w = "AUTH_SIX" -> W("AUTH_SIX", "AUTH_SIX", "AUTH_SIX", "AUTH_SIX", <<"AUTH_SIX">>)
      [] w = "'utf-8'" -> W("'UTF-8'", "", "", "", <<>>)
      [] w = "codec" -> W("CODEC", "CODEC", "CODEC", "CODEC", <<>>)
      [] w = "can't" -> W("CAN'T", "", "", "", <<>>)
      [] w = "decode" -> W("DECODE", "DECODE", "DECODE", "DECODE", <<>>)
      [] w = "byte" -> W("BYTE", "BYTE", "BYTE", "BYTE", <<>>)
      [] w = "0xff" -> W("0XFF", "", "", "", <<>>)
      [] w = "in" -> W("IN", "", "", "", <<>>)
      [] w = "position" -> W("POSITION", "POSITION", "POSITION", "POSITION", <<>>)
      [] w = "0:" -> W("0:", "", "", "", <<>>)
      [] w = "invalid" -> W("INVALID", "INVALID", "INVALID", "INVALID", <<>>)

\* the keywords k of lines 395 and 431 with k in t.lower()
KeywordsIn(t) ==
    CASE t = "ANTHROPIC_API_KEY" -> {"key", "api"}
      [] t = "API_KEY" -> {"key", "api"}
      [] t = "API_TWO" -> {"api"}
      [] t = "ATTRIBUTE" -> {}
      [] t = "AUTH_ONE" -> {"auth"}
      [] t = "AUTH_SIX" -> {"auth"}
      [] t = "BROKEN" -> {}
      [] t = "CLIENT_ID" -> {"client"}
      [] t = "DATABASE_HOST" -> {}
      [] t = "DATABASE_URL" -> {"url"}
      [] t = "DIRECTORY" -> {}
      [] t = "ENVIRONMENT" -> {}
      [] t = "ERRNO" -> {}
      [] t = "ERROR" -> {}
      [] t = "FAILED" -> {}
      [] t = "FILE" -> {}
      [] t = "FOUND" -> {}
      [] t = "FROM" -> {}
      [] t = "GITHUB_TOKEN" -> {"token"}
      [] t = "INVALID" -> {}
      [] t = "JSON" -> {}
      [] t = "KEY_THREE" -> {"key"}
      [] t = "MISSING" -> {}
      [] t = "OBJECT" -> {}
      [] t = "OPENAI_API_KEY" -> {"key", "api"}
      [] t = "OPERATION" -> {}
      [] t = "PERMITTED" -> {}
      [] t = "PIPE" -> {}
      [] t = "PLEASE" -> {}
      [] t = "REQUIRED" -> {}
      [] t = "REQUIRES" -> {}
      [] t = "RESPONSE" -> {}
      [] t = "SECRET_FIVE" -> {"secret"}
      [] t = "SERVER" -> {}
      [] t = "START" -> {}
      [] t = "STRIPE_SECRET_KEY" -> {"key", "secret"}
      [] t = "SUCH" -> {}
      [] t = "TOKEN_FOUR" -> {"token"}
      [] t = "TYPE" -> {}
      [] t = "USING" -> {}
      [] t = "VARIABLE" -> {}
      [] t = "BYTE" -> {}
      [] t = "CODEC" -> {}
      [] t = "DECODE" -> {}
      [] t = "POSITION" -> {}

\* the allowlist of line 431 at line 395
Tier1KeywordsShort == {"key", "token", "secret", "auth", "api"}

\* line 395
Tier1Keywords == {"key", "token", "secret", "auth", "api", "url", "client"}
\* line 431
Tier3Keywords == {"key", "token", "secret", "auth", "api"}

\* lines 381-388, in this order.  pre and post are the literal words before
\* and after the group, as re.IGNORECASE sees them on the upper-cased text;
\* cap says where the group sits; gap: [:\s]+ stands before the group, so
\* that a line may end there.
AuthErrorPatterns ==
    << [pre |-> <<{"MISSING"}, {"REQUIRED"}, {"ENVIRONMENT"}, {"VARIABLE", "VARIABLE:"}>>,
        cap |-> "head", post |-> <<>>, gap |-> TRUE],
       [pre |-> <<{"ENVIRONMENT"}, {"VARIABLE"}>>,
        cap |-> "whole", post |-> <<{"IS"}, {"REQUIRED"}>>, gap |-> FALSE],
       [pre |-> <<{"PLEASE"}, {"SET"}>>,
        cap |-> "head", post |-> <<>>, gap |-> FALSE],
       [pre |-> <<>>,
        cap |-> "tail", post |-> <<{"NOT"}, {"FOUND"}>>, gap |-> FALSE],
       [pre |-> <<>>,
        cap |-> "tail", post |-> <<{"IS"}, {"NOT"}, {"SET"}>>, gap |-> FALSE],
       [pre |-> <<{"MISSING"}>>,
        cap |-> "head", post |-> <<>>, gap |-> FALSE],
       [pre |-> <<{"REQUIRE", "REQUIRES"}>>,
        cap |-> "head", post |-> <<>>, gap |-> FALSE],
       [pre |-> <<{"SET"}, {"THE"}>>,
        cap |-> "whole", post |-> <<{"ENVIRONMENT"}, {"VARIABLE", "VARIABLE:"}>>, gap |-> FALSE] >>

\* word i of ws is one of the literal words L
Lit(ws, i, L) == i <= Len(ws) /\ WordInfo(ws[i]).up \in L

RECURSIVE SkipNL(_, _)
SkipNL(ws, j) == IF j <= Len(ws) /\ ws[j] = NL THEN SkipNL(ws, j + 1) ELSE j

\* the index of the word the group of p would capture in, for a match that
\* starts at word i
GroupAt(p, ws, i) == IF p.gap THEN SkipNL(ws, i + Len(p.pre)) ELSE i + Len(p.pre)

\* what the group of p captures for a match that starts at word i; "" when
\* p does not match there
MatchAt(p, ws, i) ==
    LET j == GroupAt(p, ws, i)
        x == IF j > Len(ws) THEN ""
             ELSE CASE p.cap = "head" -> WordInfo(ws[j]).head
                    [] p.cap = "whole" -> WordInfo(ws[j]).whole
                    [] p.cap = "tail" -> WordInfo(ws[j]).tail
    IN  IF /\ \A k \in 1..Len(p.pre) : Lit(ws, i + k - 1, p.pre[k])
           /\ \A k \in 1..Len(p.post) : Lit(ws, j + k, p.post[k])
        THEN x ELSE ""

RECURSIVE FindAll(_, _, _)
\* re.findall(p, text, re.IGNORECASE) from word i on: the matches are taken
\* from left to right and do not overlap
FindAll(p, ws, i) ==
    IF i > Len(ws) THEN {}
    ELSE IF MatchAt(p, ws, i) # ""
    THEN {MatchAt(p, ws, i)} \cup FindAll(p, ws, GroupAt(p, ws, i) + Len(p.post) + 1)
    ELSE FindAll(p, ws, i + 1)

\* lines 370-374: f"{error_message} {stderr_output}"
AllErrors(r) == Words(Get(r, "error", "")) \o Lines(Get(r, "stderr", <<>>))

\* lines 392-397: the captures that carry a keyword
Tier1Found(r) ==
    { t \in UNION { FindAll(AuthErrorPatterns[n], AllErrors(r), 1) :
                       n \in DOMAIN AuthErrorPatterns } :
         KeywordsIn(t) \cap Tier1Keywords # {} }

RECURSIVE EnvMentions(_)
\* line 429 on the words of stderr
EnvMentions(ws) ==
    IF ws = <<>> THEN {}
    ELSE { WordInfo(Head(ws)).caps[n] : n \in DOMAIN WordInfo(Head(ws)).caps }
            \cup EnvMentions(Tail(ws))

\* lines 425-433
Tier3Found(r) ==
    { v \in EnvMentions(Lines(Get(r, "stderr", <<>>))) :
         KeywordsIn(v) \cap Tier3Keywords # {} }

\* line 436
MaxVars == 5

\* list(set(d)) without the slice: every name found is kept
KeepsAll(d) == {d}

\* line 436: list(set(d))[:5]; the order of a set of str is not fixed, so
\* any five of more than five can be the ones kept
FirstFive(d) ==
    IF Cardinality(d) <= MaxVars THEN {d}
    ELSE { t \in SUBSET d : Cardinality(t) = MaxVars }

\* the tuple extract_auth_from_mcp_result returns
Auth(required, found) == [required |-> required, vars |-> found]

\* the method raises AttributeError
AuthRaised == [raised |-> "object has no attribute 'lower'"]

\* lines 411-413: server_info.get('name', '').lower() on a name that is not
\* a string
InfoRaises(r) ==
    LET info == Get(r, "server_info", NoInfo)
    IN  info.present /\ Get(info, "name_is", "str") # "str"

\* tier 1 hands its finds on to tier 3
Tier1FallsThrough(d) == FALSE

\* lines 400-403
Tier1Returns(d) == d # {}

\* what extract_auth_from_mcp_result(package_name, r) can return
Extract(r) ==
    LET success == Get(r, "success", FALSE)
        d1 == IF success THEN {} ELSE Tier1Found(r)
    IN  IF ~success /\ Tier1Returns(d1) THEN { Auth(TRUE, d1) }
        ELSE IF success
        THEN IF InfoRaises(r) THEN { AuthRaised } ELSE { Auth(FALSE, {}) }
        ELSE { Auth(t # {}, t) : t \in FirstFive(d1 \cup Tier3Found(r)) }

\* the texts and outcomes extract_auth_from_mcp_result is applied to
ErrorTexts ==
    { "", "No response from server", "[Errno 32] Broken pipe",
      "Missing required environment variable: STRIPE_SECRET_KEY",
      "Error: ANTHROPIC_API_KEY is not set",
      "please set api_key",
      "requires DATABASE_HOST" }

StderrTexts ==
    { <<>>,
      <<"Error: ANTHROPIC_API_KEY is not set">>,
      <<"DATABASE_URL not found">>,
      <<"set the GITHUB_TOKEN environment variable">>,
      <<"using OPENAI_API_KEY DATABASE_URL CLIENT_ID">>,
      <<"AUTH_ONE API_TWO KEY_THREE TOKEN_FOUR SECRET_FIVE AUTH_SIX">>,
      <<"requires DATABASE_HOST", "Error: ANTHROPIC_API_KEY is not set">> }

ServerInfos ==
    { NoInfo,
      [present |-> TRUE, name |-> "auth-api-server"],
      [present |-> TRUE, name |-> "None", name_is |-> "null"] }

Outcomes ==
    { [success |-> s, error |-> e, stderr |-> sd, server_info |-> si] :
         s \in BOOLEAN, e \in ErrorTexts, sd \in StderrTexts, si \in ServerInfos }
      \cup { StartFailed }

ExtractInit ==
    /\ pc = "extract"
    /\ result \in Outcomes
    /\ auth = Pending
    /\ NoCrawl
    /\ child = NoChild
    /\ outBuf = <<>>
    /\ errBuf = <<>>
    /\ loc = Locals0
    /\ exc = ""
    /\ handle = FALSE
    /\ earlyExit = FALSE
    /\ written = <<>>
    /\ reads = <<>>
    /\ negotiated = FALSE
    /\ answers = <<>>
    /\ cleanups = 0
    /\ signals = <<>>

\* line 1292: the call of extract_auth_from_mcp_result on an outcome
ExtractAuth ==
    /\ pc = "extract"
    /\ auth' \in Extract(result)
    /\ pc' = "extracted"
    /\ UNCHANGED <<child, outBuf, errBuf, loc, exc, result>>
    /\ UNCHANGED <<ghostSession, ghostCleanup>>
    /\ UNCHANGED crawlVars

ExtractNext == ExtractAuth

ExtractSpec == ExtractInit /\ [][ExtractNext]_vars

(***************************************************************************)
(* AICrawlerComplete.crawl_mcps, with _process_single_mcp and              *)
(* _store_results.  The packages of one run are numbered 1..npkgs in the   *)
(* order discover_mcps returned them; each is a dict with a string under   *)
(* 'name', since _is_likely_mcp has called .get and .lower() on it.  The   *)
(* session with each package's server is the whole of connect_to_mcp.      *)
(***************************************************************************)
\* the packages discover_mcps returns to one crawler object, over all the
\* calls of crawl_mcps on it
MaxPackages == 2

\* lines 1237-1242: discovery, which returns [] when it fails
Discover ==
    /\ pc = "discover"
    /\ \E n \in 0..(MaxPackages - seen) :
         /\ npkgs' = n
         /\ stats' = [stats EXCEPT !.discovered = n]
         /\ pc' = IF n = 0 THEN "finished" ELSE "loop"
         /\ pkg' = IF n = 0 THEN 0 ELSE 1
    /\ UNCHANGED <<child, outBuf, errBuf, loc, exc, result>>
    /\ UNCHANGED <<ghostSession, ghostCleanup>>
    /\ UNCHANGED <<auth, attempts, results, orphans, seen>>

\* lines 1248-1252 and 1282-1289: the loop takes the next package and
\* _process_single_mcp calls connect_to_mcp on its install command
ProcessPackage ==
    /\ pc = "loop"
    /\ pkg <= npkgs
    /\ attempts' = Append(attempts, pkg)
    /\ pc' = "start"
    /\ UNCHANGED <<child, outBuf, errBuf, loc, exc, result>>
    /\ UNCHANGED <<ghostSession, ghostCleanup>>
    /\ UNCHANGED <<auth, npkgs, pkg, results, stats, orphans, seen>>

\* what _process_single_mcp returns (lines 1292-1348) once connect_to_mcp has
\* returned r: None when the auth extraction raised or the analysis did,
\* otherwise the analysis, of which crawl_mcps reads connection_working
Processed(a, analysed, r) ==
    IF a = AuthRaised \/ ~analysed
    THEN [none |-> TRUE]
    ELSE [none |-> FALSE, working |-> Get(r, "success", FALSE)]

\* connect_to_mcp has returned and its child is still running, no signal
\* having been sent to it: terminate() raised (lines 350 and 354)
LeftRunning == child.state = "alive" /\ signals = <<>>

\* lines 1292-1348 and 1253-1262: the rest of _process_single_mcp, the
\* bookkeeping of crawl_mcps and the pause before the next package; the
\* process object and the locals of the call that returned are dropped
RecordPackage ==
    /\ pc = "done"
    /\ \E a \in Extract(result), analysed \in BOOLEAN :
         LET p == Processed(a, analysed, result)
             k == IF p.none THEN "none" ELSE IF p.working THEN "connected" ELSE "failed"
         IN  /\ results' = IF p.none THEN results
                           ELSE Append(results, [pkg |-> pkg, working |-> p.working])
             /\ stats' = IF p.none THEN stats
                         ELSE [stats EXCEPT ![k] = @ + 1]
    /\ pkg' = pkg + 1
    /\ pc' = IF pkg < npkgs THEN "loop" ELSE "store"
    /\ child' = NoChild
    /\ outBuf' = <<>>
    /\ errBuf' = <<>>
    /\ loc' = Locals0
    /\ exc' = ""
    /\ result' = Pending
    /\ handle' = FALSE
    /\ earlyExit' = FALSE
    /\ written' = <<>>
    /\ reads' = <<>>
    /\ negotiated' = FALSE
    /\ answers' = <<>>
    /\ cleanups' = 0
    /\ signals' = <<>>
    /\ auth' = Pending
    /\ orphans' = IF LeftRunning THEN orphans + 1 ELSE orphans
    /\ UNCHANGED <<npkgs, attempts, seen>>

\* lines 1264-1273 and 1350-1452: every result is upserted in its own try,
\* and the results that were stored are counted
StoreResults ==
    /\ pc = "store"
    /\ \E kept \in SUBSET (DOMAIN results) :
         stats' = [stats EXCEPT !.stored = Cardinality(kept)]
    /\ pc' = "finished"
    /\ UNCHANGED <<child, outBuf, errBuf, loc, exc, result>>
    /\ UNCHANGED <<ghostSession, ghostCleanup>>
    /\ UNCHANGED <<auth, npkgs, pkg, attempts, results, orphans, seen>>

Crawler == Discover \/ ProcessPackage \/ RecordPackage \/ StoreResults

\* a child that connect_to_mcp left running exits on its own
OrphanExits ==
    /\ orphans > 0
    /\ orphans' = orphans - 1
    /\ UNCHANGED <<pc, child, outBuf, errBuf, loc, exc, result>>
    /\ UNCHANGED <<ghostSession, ghostCleanup>>
    /\ UNCHANGED <<auth, npkgs, pkg, attempts, results, stats, seen>>

\* crawl_mcps is called again on the same object: packages and results are
\* locals of the call, self.stats is kept (it is set at lines 1222-1227 only)
CrawlAgain ==
    /\ pc = "finished"
    /\ pc' = "discover"
    /\ seen' = seen + npkgs
    /\ npkgs' = 0
    /\ pkg' = 0
    /\ attempts' = <<>>
    /\ results' = <<>>
    /\ UNCHANGED <<child, outBuf, errBuf, loc, exc, result>>
    /\ UNCHANGED <<ghostSession, ghostCleanup>>
    /\ UNCHANGED <<auth, stats, orphans>>

CrawlInit ==
    /\ pc = "discover"
    /\ child = NoChild
    /\ outBuf = <<>>
    /\ errBuf = <<>>
    /\ loc = Locals0
    /\ exc = ""
    /\ result = Pending
    /\ handle = FALSE
    /\ earlyExit = FALSE
    /\ written = <<>>
    /\ reads = <<>>
    /\ negotiated = FALSE
    /\ answers = <<>>
    /\ cleanups = 0
    /\ signals = <<>>
    /\ auth = Pending
    /\ NoCrawl

CrawlNext == Crawler \/ Client \/ Server \/ OrphanExits

CrawlSpec == CrawlInit /\ [][CrawlNext]_vars

\* any number of calls of crawl_mcps on one crawler object
RecrawlNext == CrawlNext \/ CrawlAgain

RecrawlSpec == CrawlInit /\ [][RecrawlNext]_vars

\* crawl_mcps is one coroutine and is run to its end: a step that it can
\* take is taken; the servers owe nothing
CrawlFairSpec == CrawlSpec /\ WF_vars(Crawler \/ Client)

(***************************************************************************)
(* Properties.                                                             *)
(***************************************************************************)
Returned == pc = "done"

\* the methods of the requests the session tried to write, in order
Methods == [i \in DOMAIN written |-> written[i].method]
Attempted(m) == \E i \in DOMAIN written : written[i].method = m
Sent(m) == \E i \in DOMAIN written : written[i].method = m /\ written[i].ok

\* the readline that followed request req got no line, or a line that is not JSON
Missed(req) == \E i \in DOMAIN reads : reads[i].req = req /\ reads[i].got \in {"eof", "garbage"}

\* the readline of request req raised on bytes that are not UTF-8
Undecoded(req) == \E i \in DOMAIN reads : reads[i].req = req /\ reads[i].got = "undecodable"

ReadPcs == {"r_init", "r_tools", "r_res", "r_prompts"}

\* C1: whenever connect_to_mcp returns after _start_mcp_server gave it a
\* process, _cleanup_process has been called on that process, whichever way
\* the session ended.
C1_CleanupBeforeReturn == (Returned /\ handle) => cleanups >= 1

\* a session that ended in the handler of line 330 and was cleaned up
C1_Witness ==
    /\ Returned /\ handle /\ cleanups = 1
    /\ Get(result, "error", "") = BrokenPipeMsg

\* C2: every readline on the child's stdout that the session starts comes to
\* an end, whatever the child does, so that connect_to_mcp returns.
C2_ReadsGiveUp == \A p \in ReadPcs : (pc = p) ~> (pc # p)

\* C3: connect_to_mcp never raises; what it returns carries a success flag,
\* and when the process was not started or the initialize exchange was not
\* accepted, the flag is false and the error text is not empty.
C3_NeverRaises ==
    /\ pc # "raised"
    /\ Returned =>
          /\ "success" \in DOMAIN result
          /\ ~negotiated => (result.success = FALSE /\ Get(result, "error", "") # "")

\* an exception during the initialize exchange, returned as a failure
C3_Witness ==
    /\ Returned /\ handle /\ ~negotiated
    /\ result.success = FALSE /\ Get(result, "error", "") = NoGetMsg

\* C4: the success flag of the returned dict is true exactly when the
\* initialize response was accepted, whatever happened in the list calls.
C4_SuccessIffNegotiated == Returned => (Get(result, "success", FALSE) = negotiated)

\* C5: when the child has exited by the end of the startup wait, the process
\* is not handed to the session: nothing is written to it, nothing is read
\* from its stdout or stderr, and connect_to_mcp returns success = false.
C5_EarlyExitNoSession ==
    earlyExit =>
        /\ ~handle
        /\ written = <<>> /\ reads = <<>> /\ loc.stderr_data = <<>>
        /\ Returned /\ Get(result, "success", TRUE) = FALSE

\* a child that wrote on stderr and exited during the startup wait
C5_Witness == earlyExit /\ Returned /\ Len(errBuf) > 0 /\ child.state = "exited"

\* C6: after an accepted initialize response the session attempts exactly
\* tools/list, resources/list, prompts/list, in this order, once each.
C6_ThreeListCalls ==
    (Returned /\ negotiated) =>
        Methods = <<"initialize", "tools/list", "resources/list", "prompts/list">>

\* C7 as claimed: a failed initialize exchange means no list request is
\* written; a tools/list (resources/list) that gets no line or a line that
\* does not parse means the later list requests are not sent; the process is
\* still cleaned up.
C7_FailureShortCircuits ==
    /\ (Returned /\ handle) => cleanups >= 1
    /\ ~negotiated => Len(written) <= 1
    /\ Missed(ToolsId) => ~Sent("resources/list") /\ ~Sent("prompts/list")
    /\ Missed(ResourcesId) => ~Sent("prompts/list")

\* C7 as the code has it: a failed initialize exchange means no list request
\* is written; a tools/list (resources/list) that gets no line or a line that
\* is not JSON does not end the session: the next list request is written
\* next; a tools/list (resources/list) readline that raises on bytes that
\* are not UTF-8 is followed by no later list request; the process is still
\* cleaned up.
C7_OnlyNegotiateShortCircuits ==
    /\ (Returned /\ handle) => cleanups >= 1
    /\ ~negotiated => Len(written) <= 1
    /\ Missed(ToolsId) => (pc = "w_res" \/ Attempted("resources/list"))
    /\ Missed(ResourcesId) => (pc = "w_prompts" \/ Attempted("prompts/list"))
    /\ Undecoded(ToolsId) => ~Attempted("resources/list") /\ ~Attempted("prompts/list")
    /\ Undecoded(ResourcesId) => ~Attempted("prompts/list")

\* tools/list got no usable line and the two later requests were still sent
C7_Witness ==
    /\ Returned /\ cleanups = 1
    /\ Missed(ToolsId) /\ Sent("resources/list") /\ Sent("prompts/list")

\* C8: when tools/list gave a list of tools and the session went on to
\* resources/list, the returned dict carries exactly those tools, however
\* the later steps ended.
C8_ToolsPreserved ==
    (Returned /\ Attempted("resources/list") /\ Len(loc.tools.items) > 0) =>
        Get(result, "tools", JList(<<>>)) = loc.tools

\* C9: the ids of the requests of one session increase strictly in the order
\* the requests are written.
C9_IdsIncrease ==
    \A i, j \in DOMAIN written : i < j => written[i].id < written[j].id

\* a session that wrote all four requests
C9_Witness == Returned /\ Len(written) = 4 /\ \A i \in DOMAIN written : written[i].ok

\* C10: a line whose content the session keeps as the answer to a request
\* carries the id of that request.
C10_AnswersMatchIds == \A i \in DOMAIN answers : answers[i].id = answers[i].req


(***************************************************************************)
(* _cleanup_process called more than once on one process.                  *)
(***************************************************************************)

\* a process object as _cleanup_process can be handed it: running with any
\* of its pipes open or closed, or exited
Handles ==
    { [state |-> "alive", stdin |-> i, stdout |-> o, stderr |-> e] :
         i \in BOOLEAN, o \in BOOLEAN, e \in BOOLEAN } \cup {Exited}

CleanupInit ==
    /\ pc = "cleanup"
    /\ child \in Handles
    /\ outBuf = <<>>
    /\ errBuf = <<>>
    /\ loc = Locals0
    /\ exc = ""
    /\ result = Pending
    /\ handle = TRUE
    /\ earlyExit = FALSE
    /\ written = <<>>
    /\ reads = <<>>
    /\ negotiated = FALSE
    /\ answers = <<>>
    /\ cleanups = 0
    /\ signals = <<>>
    /\ auth = Pending
    /\ NoCrawl

\* line 346: _cleanup_process is called again with the same process
CleanupAgain ==
    /\ pc = "done"
    /\ cleanups < MaxCalls
    /\ Goto("cleanup")
    /\ UNCHANGED <<child, outBuf, errBuf, loc>>
    /\ UNCHANGED <<ghostSession, ghostCleanup>>
    /\ UNCHANGED outer

CleanupNext == CleanupTerminate \/ CleanupKill \/ CleanupAgain \/ SrvExit

CleanupSpec == CleanupInit /\ [][CleanupNext]_vars

\* C11: _cleanup_process called again on the same process never raises, and
\* a second or later call sends no signal to a process that has exited.
C11_CleanupIdempotent ==
    [][ /\ pc' # "raised"
        /\ (cleanups' >= 2 /\ child.state = "exited") => signals' = signals ]_vars

\* the first call sent both signals, the process exited, and the second call
\* returned without sending anything
C11_Witness ==
    /\ pc = "done" /\ cleanups = 2
    /\ child.state = "exited"
    /\ signals = <<"term", "kill">>

(***************************************************************************)
(* Properties of extract_auth_from_mcp_result.                             *)
(***************************************************************************)
Extracted == pc = "extracted"
Failed(r) == ~Get(r, "success", FALSE)

\* the keyword allowlist of a candidate token
Allowlist == {"key", "token", "secret", "auth", "api", "url", "client"}

\* the tokens of the error and diagnostic text of r, as written there, that
\* stand in the place of the variable in a match of one of the failure
\* patterns and contain an allowlisted keyword
PatternTokens(r) ==
    LET ws == AllErrors(r)
    IN  { ws[GroupAt(AuthErrorPatterns[n], ws, i)] :
             <<n, i>> \in { m \in (DOMAIN AuthErrorPatterns) \X (DOMAIN ws) :
                 /\ MatchAt(AuthErrorPatterns[m[1]], ws, m[2]) # ""
                 /\ KeywordsIn(MatchAt(AuthErrorPatterns[m[1]], ws, m[2]))
                       \cap Allowlist # {} } }

StripeText == "Missing required environment variable: STRIPE_SECRET_KEY"

\* C12: for an outcome with success = true, extract_auth_from_mcp_result
\* returns (False, []), whatever the error text, the stderr text and the
\* server info of the outcome are.
C12_SuccessNeverRequired ==
    (Extracted /\ ~Failed(result)) => auth = Auth(FALSE, {})

\* C13 as claimed: for an outcome with success = false whose error or stderr
\* text has a pattern match on a token with an allowlisted keyword, the
\* method returns True and exactly those tokens, each once; for the text
\* "Missing required environment variable: STRIPE_SECRET_KEY" alone it
\* returns exactly STRIPE_SECRET_KEY.
C13_TokensAsWritten ==
    (Extracted /\ Failed(result)) =>
        /\ PatternTokens(result) # {} => auth = Auth(TRUE, PatternTokens(result))
        /\ (Get(result, "error", "") = StripeText /\ Get(result, "stderr", <<>>) = <<>>)
              => auth = Auth(TRUE, {"STRIPE_SECRET_KEY"})

\* C13 as the code has it: the method returns True and those tokens in upper
\* case, each once; for the text "Missing required environment variable:
\* STRIPE_SECRET_KEY" alone it returns exactly STRIPE_SECRET_KEY.
C13_TokensUpperCased ==
    (Extracted /\ Failed(result)) =>
        /\ PatternTokens(result) # {} =>
              auth = Auth(TRUE, { WordInfo(t).up : t \in PatternTokens(result) })
        /\ (Get(result, "error", "") = StripeText /\ Get(result, "stderr", <<>>) = <<>>)
              => auth = Auth(TRUE, {"STRIPE_SECRET_KEY"})

\* a failure whose error text asks for a variable written in lower case
C13_Witness ==
    /\ Extracted /\ Failed(result)
    /\ Get(result, "error", "") = "please set api_key"
    /\ Get(result, "stderr", <<>>) = <<>>
    /\ auth = Auth(TRUE, {"API_KEY"})

(***************************************************************************)
(* Properties of connect_to_mcp on whole runs of a command.                *)
(***************************************************************************)
\* nothing of the child's output is waiting unread, and nothing was read
NoOutput ==
    /\ outBuf = <<>> /\ errBuf = <<>>
    /\ loc.stderr_data = <<>>
    /\ \A i \in DOMAIN reads : reads[i].got = "eof"

\* C14 as claimed: a command that exits at once, without output, gives an
\* outcome with success = false, no tools, and the error text
\* "No response from server".
C14_ExitGivesNoResponse ==
    (Returned /\ earlyExit /\ NoOutput) =>
        /\ result.success = FALSE
        /\ Get(result, "tools", JList(<<>>)) = JList(<<>>)
        /\ Get(result, "error", "") = "No response from server"

\* C14 as the code has it: a command that exits at once (before the poll
\* that ends the startup wait), without output, gives an outcome with
\* success = false, no tools, and the error text "Failed to start MCP server".
C14_ExitGivesFailedToStart ==
    (Returned /\ earlyExit /\ NoOutput) =>
        /\ result.success = FALSE
        /\ Get(result, "tools", JList(<<>>)) = JList(<<>>)
        /\ Get(result, "error", "") = "Failed to start MCP server"

\* the child exited during the startup wait without writing anything
C14_Witness ==
    /\ Returned /\ earlyExit /\ NoOutput
    /\ child.state = "exited"
    /\ result = StartFailed

\* the child wrote the text on stderr: it is waiting there, or was read
SaidKeyMissing ==
    \E t \in {errBuf, loc.stderr_data} :
        \E i \in DOMAIN t : t[i] = "Error: ANTHROPIC_API_KEY is not set"

\* the child wrote nothing on stdout
NoAnswer == outBuf = <<>> /\ \A i \in DOMAIN reads : reads[i].got = "eof"

\* C15: a command that writes "Error: ANTHROPIC_API_KEY is not set" on
\* stderr and exits without answering initialize, during the startup wait or
\* after it: extract_auth_from_mcp_result on what connect_to_mcp returns
\* gives True and exactly ANTHROPIC_API_KEY.
C15_KeyMissingDetected ==
    (Returned /\ child.state = "exited" /\ SaidKeyMissing /\ NoAnswer) =>
        Extract(result) = { Auth(TRUE, {"ANTHROPIC_API_KEY"}) }

\* the list under k in a line is a list of JSON objects
ListOfObjects(v) == v.t = "list" /\ AllDicts(v.items)

\* this step is the readline at position p, and it returns a line whose
\* result carries a list of objects under k
Answered(p, k) ==
    /\ pc = p /\ GotLine
    /\ Len(reads') = Len(reads) + 1 /\ reads'[Len(reads')].got = Line.form
    /\ Line.form = "obj" /\ Line.res = "dict"
    /\ ListOfObjects(Line[k])

\* C16: what the session takes from an answered list call is the list of
\* the line, element by element in the order received, repeated names
\* included; when the last of the three calls is answered the outcome is a
\* success, and the dict of a successful connection carries the three
\* lists so taken; three tools, no resources and no prompts give tools of
\* length 3 and empty resources and prompts.
C16_ListsAsReturned ==
    /\ [](Returned /\ Get(result, "success", FALSE) =>
             /\ result.tools = loc.tools
             /\ result.resources = loc.resources
             /\ result.prompts = loc.prompts)
    /\ [][ /\ Answered("r_tools", "tools") => loc'.tools = Line.tools
           /\ Answered("r_res", "resources") => loc'.resources = Line.resources
           /\ Answered("r_prompts", "prompts") =>
                 /\ loc'.prompts = Line.prompts
                 /\ Get(result', "success", FALSE)
                 /\ Get(result', "tools", JAbsent) = loc.tools
                 /\ Get(result', "resources", JAbsent) = loc.resources
                 /\ Get(result', "prompts", JAbsent) = Line.prompts ]_vars

\* all four requests were answered: three tools, two of the same name, no
\* resources and no prompts
C16_Witness ==
    /\ Returned /\ result.success
    /\ Len(reads) = 4 /\ \A i \in DOMAIN reads : reads[i].got = "obj"
    /\ Len(answers) = 2 /\ answers[2] = [req |-> ToolsId, id |-> ToolsId]
    /\ result.tools = JList(ThreeTools)
    /\ PyLen(result.tools) = 3
    /\ result.resources = JList(<<>>) /\ result.prompts = JList(<<>>)

\* C17: a call of connect_to_mcp that is cancelled while it waits, in the
\* startup wait or in the wait of _cleanup_process, does not leave the child
\* it started alive without having sent it a signal.
C17_CancelledChildSignalled ==
    pc = "cancelled" => (child.state # "alive" \/ signals # <<>>)

(***************************************************************************)
(* Properties of crawl_mcps.                                               *)
(***************************************************************************)
\* the packages 1..n in discovery order
Order(n) == [i \in 1..n |-> i]
Discovered == pc # "discover"

\* C18: no failure met with one package aborts the run: the packages
\* attempted are at every moment the first ones discovered, each once and
\* in discovery order, and in the end every discovered package, the ones
\* after a failing one included, has been attempted.
C18_EveryPackageAttempted ==
    /\ [](attempts = Order(Len(attempts)) /\ Len(attempts) <= npkgs)
    /\ <>(Discovered /\ attempts = Order(npkgs))

(***************************************************************************)
(* The tiers of extract_auth_from_mcp_result.                              *)
(***************************************************************************)
\* the names the method returned
NamesReturned == IF auth = AuthRaised THEN {} ELSE auth.vars

\* C19: the tiers apply in strict priority order.  On a failed result whose
\* failure text gives tier 1 an accepted candidate, the tier-1 names are
\* returned alone; a name that only the loose scan of stderr found is
\* returned only for a failed result on which tier 1 accepted nothing, and
\* then every name returned is a tier-3 name; no result holds names of both.
C19_TiersInPriorityOrder ==
    Extracted =>
        LET t1 == IF Failed(result) THEN Tier1Found(result) ELSE {}
            t3 == Tier3Found(result)
        IN  /\ t1 # {} => auth = Auth(TRUE, t1)
            /\ NamesReturned \ t1 # {} =>
                 /\ Failed(result)
                 /\ t1 = {}
                 /\ NamesReturned \subseteq t3
            /\ ~(NamesReturned \cap t1 # {} /\ NamesReturned \ t1 # {})

\* tier 1 accepted API_KEY from the failure text while the loose scan of
\* stderr would have added OPENAI_API_KEY: API_KEY is returned alone
C19_Witness ==
    /\ Extracted
    /\ Failed(result)
    /\ result.error = "please set api_key"
    /\ result.stderr = <<"using OPENAI_API_KEY DATABASE_URL CLIENT_ID">>
    /\ Tier3Found(result) = {"OPENAI_API_KEY"}
    /\ auth = Auth(TRUE, {"API_KEY"})

(***************************************************************************)
(* The look at stderr between the initialize request and its response.     *)
(***************************************************************************)
\* C20: the look at stderr cannot stall the session: whatever the server
\* does, one that wrote text on stderr and keeps that stream open included,
\* the client that has sent initialize goes on to read the response.
C20_PeekCompletes == (pc \in {"peek", "peek_read"}) ~> (pc = "r_init")

(***************************************************************************)
(* Properties of the text read from stderr.                                *)
(***************************************************************************)
\* _communicate_with_server returns at this step
CommunicateReturns == pc # "cleanup" /\ pc' = "cleanup"

\* C21: the text the look at stderr captured is in the dict
\* _communicate_with_server returns, on every path: a captured text is
\* never replaced by an empty one.
C21_CapturedTextKept ==
    [][ (CommunicateReturns /\ loc.stderr_data # <<>>)
           => Get(result', "stderr", <<>>) = loc.stderr_data ]_vars

(***************************************************************************)
(* Properties of the response lines that are not JSON.                     *)
(***************************************************************************)
\* the readline of request p returns a line that json.loads rejects
ReadsGarbage(p) ==
    /\ pc = p /\ GotLine
    /\ Len(reads') = Len(reads) + 1 /\ reads'[Len(reads')].got = Line.form
    /\ Line.form = "garbage"

\* C22: for initialize and for each of the three list calls, a response
\* line that is not JSON gives a failed result that reports the invalid
\* response and holds the line as it was read: the line is never discarded.
C22_RawTextKept ==
    /\ [](Returned =>
            \A i \in DOMAIN reads :
               reads[i].got = "garbage" =>
                  /\ ~Get(result, "success", FALSE)
                  /\ Get(result, "error", "") = "Invalid JSON response"
                  /\ "raw_response" \in DOMAIN result)
    /\ [][ ReadsGarbage("r_init") => Get(result', "raw_response", Pending) = Line ]_vars

(***************************************************************************)
(* Properties of the order of writes and reads in one session.             *)
(***************************************************************************)
\* the requests written and not yet followed by their readline
Outstanding == { i \in DOMAIN written : i > Len(reads) }

\* C23: the requests of one session are strictly sequential.  The k-th
\* readline is the one for the k-th request and follows a write that went
\* through; a request is written only when the readline of every request
\* before it has returned, the one of initialize first, so at most one
\* request is outstanding at any time.
C23_OneRequestOutstanding ==
    /\ Len(reads) <= Len(written)
    /\ Cardinality(Outstanding) <= 1
    /\ \A i \in DOMAIN reads : reads[i].req = written[i].id /\ written[i].ok
    /\ Len(written) >= 2 => (written[1].method = "initialize" /\ Len(reads) >= 1)

\* all four requests were written and each was followed by its readline
C23_Witness ==
    /\ Returned
    /\ Methods = <<"initialize", "tools/list", "resources/list", "prompts/list">>
    /\ Len(reads) = 4
    /\ \E i \in DOMAIN reads : reads[i].got # "obj"

(***************************************************************************)
(* Properties of the order of the signals in _cleanup_process.             *)
(***************************************************************************)
InCleanup == pc \in {"cleanup", "cleanup_wait"}

\* C24: _cleanup_process sends the graceful stop first and the kill only
\* after the wait, to a process that is still alive then; a process that
\* has exited receives no signal; and when terminate() or kill() raises the
\* exception is swallowed: connect_to_mcp does not raise and the result is
\* the one _communicate_with_server computed.
C24_StopWaitKill ==
    /\ [](signals \in {<<>>, <<"term">>, <<"term", "kill">>})
    /\ [][ /\ signals' # signals => (InCleanup /\ child.state = "alive")
           /\ (signals' # signals /\ Len(signals') = 2) => pc = "cleanup_wait"
           /\ InCleanup => (result' = result /\ pc' # "raised") ]_vars

\* the stop was sent, the process was still alive after the wait and kill()
\* raised: the successful result of the session is returned all the same
C24_Witness ==
    /\ Returned /\ cleanups = 1
    /\ signals = <<"term">>
    /\ child.state = "alive"
    /\ Get(result, "success", FALSE)

(***************************************************************************)
(* Properties of the scan of stderr (tier 3).                              *)
(***************************************************************************)
\* extract_auth_from_mcp_result got past tiers 1 and 2 on r
ReachesTier3(r) == Failed(r) /\ Tier1Found(r) = {}

\* the capitalized tokens of five characters or more on stderr that contain
\* a keyword of the tier-1 allowlist
AllowlistTokens(r) ==
    { v \in EnvMentions(Lines(Get(r, "stderr", <<>>))) :
         KeywordsIn(v) \cap Allowlist # {} }

\* C25: the scan of stderr accepts a token under the allowlist of tier 1
\* (key, token, secret, auth, api, url, client): when the scan is reached, a
\* capitalized token of at least five characters is a candidate exactly when
\* it contains one of the seven keywords.
C25_Tier3SameAllowlist ==
    (Extracted /\ ReachesTier3(result)) =>
        /\ auth.vars \subseteq AllowlistTokens(result)
        /\ Cardinality(AllowlistTokens(result)) <= MaxVars
              => auth.vars = AllowlistTokens(result)

\* C26: what extract_auth_from_mcp_result returns has required true exactly
\* when it names a variable, on every outcome; and when the scan of stderr
\* is reached at most five variables are returned (pairwise distinct: they
\* are the elements of a set).
C26_RequiredIffNamed ==
    (Extracted /\ auth # AuthRaised) =>
        /\ auth.required <=> auth.vars # {}
        /\ ReachesTier3(result) => Cardinality(auth.vars) <= MaxVars

\* the scan of stderr found six names and five of them are returned
C26_Witness ==
    /\ Extracted /\ ReachesTier3(result)
    /\ Cardinality(Tier3Found(result)) = 6
    /\ auth.required /\ Cardinality(auth.vars) = 5

(***************************************************************************)
(* extract_auth_from_mcp_result as a function of its argument.             *)
(***************************************************************************)
RECURSIVE MentionsInOrder(_)
\* the capitalized tokens on stderr, in text order
MentionsInOrder(ws) ==
    IF ws = <<>> THEN <<>>
    ELSE WordInfo(Head(ws)).caps \o MentionsInOrder(Tail(ws))

RECURSIVE FirstDistinct(_, _, _)
\* the first n distinct accepted names of the sequence s, taken being the
\* names already taken
FirstDistinct(s, taken, n) ==
    IF s = <<>> \/ n = 0 THEN taken
    ELSE IF Head(s) \in taken \/ KeywordsIn(Head(s)) \cap Tier3Keywords = {}
         THEN FirstDistinct(Tail(s), taken, n)
         ELSE FirstDistinct(Tail(s), taken \cup {Head(s)}, n - 1)

\* C30: what extract_auth_from_mcp_result returns is fixed by its argument:
\* one result is possible for each outcome, and when the scan of stderr
\* finds more than five names the five returned are the first five distinct
\* ones in text order, whatever the iteration order of the set.
C30_FixedByOutcome ==
    Extracted =>
        /\ Extract(result) = {auth}
        /\ ReachesTier3(result) =>
              auth.vars = FirstDistinct(MentionsInOrder(Lines(Get(result, "stderr", <<>>))),
                                        {}, MaxVars)

(***************************************************************************)
(* Properties of the answer to initialize.                                 *)
(***************************************************************************)
\* the readline of initialize returns a JSON object without a result member
ReadsNoResult ==
    /\ pc = "r_init" /\ GotLine
    /\ Len(reads') = Len(reads) + 1 /\ reads'[Len(reads')].got = Line.form
    /\ Line.form = "obj" /\ Line.res = "absent"

\* C28: success is reported only when the initialize response carried a
\* result object: on a well-formed JSON object with an error member and no
\* result the session ends there with a failed result, and no list request
\* is written.
C28_ErrorResponseFails ==
    [][ ReadsNoResult =>
          /\ pc' \in {"cleanup", "handler"}
          /\ pc' = "cleanup" => ~Get(result', "success", FALSE)
          /\ written' = written ]_vars

(***************************************************************************)
(* Properties of the child processes of a crawl.                           *)
(***************************************************************************)
\* the children that have neither exited nor been sent a signal
Unstopped == orphans + (IF child.state = "alive" /\ signals = <<>> THEN 1 ELSE 0)

\* C27: over a crawl of several packages the attempts do not overlap: the
\* child of one attempt has exited or has been sent the stop signal before
\* the next attempt spawns, so that at every point of crawl_mcps at most one
\* child exists that has neither exited nor been sent a signal.
C27_OneChildAtATime == Unstopped <= 1

(***************************************************************************)
(* Properties of self.stats.                                               *)
(***************************************************************************)
\* C29: after any sequence of calls of crawl_mcps on one crawler object the
\* statistics are consistent: connected + failed <= discovered, discovered
\* being the number of packages the most recent call found, and
\* stored <= connected + failed.
C29_StatsConsistent ==
    pc = "finished" =>
        /\ stats.connected + stats.failed <= stats.discovered
        /\ stats.stored <= stats.connected + stats.failed

====
